---------------------------- MODULE Spec2Model ----------------------------
(***************************************************************************)
(* Model of the resume build pipeline: src/generate.js (build, getThemeCss, *)
(* getOutputFilename, ensureDirectoryExistence) and src/lib/config-loader.js*)
(* (loadPersonaConfig, resolveOutputFilename, applyOverrides, deepMerge).   *)
(*                                                                         *)
(* Strings are sequences of one-character strings, so that token           *)
(* replacement, lower-casing and dirname are computed on the text.         *)
(* JavaScript values are tagged records [t |-> tag, v |-> payload].        *)
(***************************************************************************)
EXTENDS Integers, Sequences, FiniteSets, TLC

VARIABLES
    \* ---- generate.js: build() ----
    pc,            \* position of build()
    idx,           \* index in jsonFiles of the record being processed
    log,           \* console output so far: sequence of [lvl, msg]
    launched,      \* number of puppeteer.launch() calls that returned a browser
    closed,        \* number of browser.close() calls
    dirs,          \* directories that exist under the working directory
    mkdirs,        \* number of fs.mkdirSync calls made
    written,       \* page.pdf writes done: sequence of [src, path]
    failed,        \* number of records whose processing threw
    thrown,        \* the step whose exception left build(), "" if none
    css,           \* stylesheet returned by getThemeCss
    jsonFiles,     \* result of findJsonFiles
    selectedTheme, \* process.argv[2] || CONFIG.defaultTheme
    themeFiles,    \* theme names whose ./themes/<name>.css is readable
    srcFiles,      \* resume.json files under ./src, in listing order
    \* ---- config-loader.js ----
    cachedConfig,  \* module variable cachedConfig
    configFile,    \* state of config/persona.config.json
    reads,         \* number of fs.readFileSync attempts on the config file
    calls,         \* number of completed calls into the config loader
    lastConfig,    \* configuration the latest call worked with
    nameArgs,      \* [lang, role] of the latest resolveOutputFilename call
    nameOut,       \* its result
    \* ---- applyOverrides / deepMerge ----
    mOp,           \* which function is exercised
    mBase,         \* base record
    mOver,         \* override: state of the override file / the source argument
    mOnce,         \* result of one application
    mTwice,        \* result of applying again to mOnce
    mPhase

vars == <<pc, idx, log, launched, closed, dirs, mkdirs, written, failed, thrown, css,
          jsonFiles, selectedTheme, themeFiles, srcFiles,
          cachedConfig, configFile, reads, calls, lastConfig, nameArgs, nameOut,
          mOp, mBase, mOver, mOnce, mTwice, mPhase>>

buildVars  == <<pc, idx, log, launched, closed, dirs, mkdirs, written, failed, thrown, css,
                jsonFiles, selectedTheme, themeFiles, srcFiles>>
configVars == <<cachedConfig, configFile, reads, calls, lastConfig, nameArgs, nameOut>>
mergeVars  == <<mOp, mBase, mOver, mOnce, mTwice, mPhase>>
\* build()'s state apart from the console and the position
restOfBuild == <<pc, idx, launched, closed, dirs, mkdirs, written, failed, thrown, css,
                 jsonFiles, selectedTheme, themeFiles, srcFiles>>

-----------------------------------------------------------------------------
(* Text *)

s_persona == <<"{","p","e","r","s","o","n","a","}">>
s_role    == <<"{","r","o","l","e","}">>
s_lang    == <<"{","l","a","n","g","}">>
s_date    == <<"{","d","a","t","e","}">>
s_foo     == <<"{","f","o","o","}">>
s_dash    == <<"-">>
s_pdf     == <<".","p","d","f">>
s_slash   == <<"/">>
s_dot     == <<".">>
s_dist    == <<"d","i","s","t">>
s_default == <<"d","e","f","a","u","l","t">>
s_sergio  == <<"s","e","r","g","i","o">>
s_backend == <<"b","a","c","k","e","n","d">>
s_Backend == <<"B","a","c","k","e","n","d">>
s_web     == <<"w","e","b">>
s_es      == <<"e","s">>
s_en      == <<"e","n">>
s_a       == <<"a">>
s_b       == <<"b">>
s_c       == <<"c">>
s_ab      == <<"a","b">>
s_resume  == <<"r","e","s","u","m","e">>
s_json    == <<"r","e","s","u","m","e",".","j","s","o","n">>
\* values that contain token text or replacement patterns
s_amp     == <<"a","$","&">>
s_dollars == <<"$","$">>
s_after   == <<"$","'">>

\* new Date().toISOString().split('T')[0] at the time of the run
Today == <<"2","0","2","6","-","1","1","-","0","1">>
\* String(Date.now()) at the time of the run
NowText == <<"1","7","9">>

\* String.prototype.toLowerCase on the letters that occur
LowerChar(ch) == IF ch = "B" THEN "b" ELSE IF ch = "E" THEN "e" ELSE
                 IF ch = "S" THEN "s" ELSE IF ch = "A" THEN "a" ELSE ch

toLowerCase(s) == [i \in 1..Len(s) |-> LowerChar(s[i])]

MatchAt(s, i, tok) ==
    /\ i + Len(tok) - 1 <= Len(s)
    /\ \A j \in 1..Len(tok) : s[i + j - 1] = tok[j]

Contains(s, tok) == \E i \in 1..Len(s) : MatchAt(s, i, tok)

RECURSIVE ExpandFrom(_, _, _, _, _)
\* GetSubstitution for a pattern without capture groups: $$, $& and $'
\* (the texts modelled hold no backquote, so the before-match pattern is left out)
ExpandFrom(val, j, matched, before, after) ==
    IF j > Len(val) THEN <<>>
    ELSE IF val[j] = "$" /\ j < Len(val) /\ val[j+1] \in {"$", "&", "'"}
         THEN (CASE val[j+1] = "$" -> <<"$">>
                 [] val[j+1] = "&" -> matched
                 [] OTHER          -> after)
              \o ExpandFrom(val, j + 2, matched, before, after)
         ELSE <<val[j]>> \o ExpandFrom(val, j + 1, matched, before, after)

RECURSIVE ReplaceFrom(_, _, _, _)
\* s.replace(new RegExp(escaped tok, 'g'), val), scanning from position i
ReplaceFrom(s, i, tok, val) ==
    IF i > Len(s) THEN <<>>
    ELSE IF MatchAt(s, i, tok)
         THEN ExpandFrom(val, 1, tok, SubSeq(s, 1, i - 1),
                         SubSeq(s, i + Len(tok), Len(s)))
              \o ReplaceFrom(s, i + Len(tok), tok, val)
         ELSE <<s[i]>> \o ReplaceFrom(s, i + 1, tok, val)

ReplaceAll(s, tok, val) == ReplaceFrom(s, 1, tok, val)

-----------------------------------------------------------------------------
(* JavaScript values *)

Undef      == [t |-> "undefined"]
JNull      == [t |-> "null"]
Thrown     == [t |-> "throw"]
JNum(n)    == [t |-> "num", v |-> n]
JStr(s)    == [t |-> "str", v |-> s]
JBool(b)   == [t |-> "bool", v |-> b]
JArr(s)    == [t |-> "arr", v |-> s]
JObj(f)    == [t |-> "obj", v |-> f]
NoProps    == [k \in {} |-> JNull]
EmptyObj   == JObj(NoProps)

IndexKeys == <<"0", "1", "2", "3", "4", "5", "6", "7", "8", "9">>

\* the elements of an array under their index keys
IndexedProps(s) ==
    [k \in {IndexKeys[i] : i \in 1..Len(s)} |->
        s[CHOOSE i \in 1..Len(s) : IndexKeys[i] = k]]

\* the characters of a string as one-character strings
CharsOf(s) == [i \in 1..Len(s) |-> JStr(<<s[i]>>)]

\* own enumerable properties of a value, as { ...x } and for-in see them
Spread(x) ==
    CASE x.t = "obj" -> x.v
      [] x.t = "arr" -> IndexedProps(x.v)
      [] x.t = "str" -> IndexedProps(CharsOf(x.v))
      [] OTHER       -> NoProps

\* x[k]; reading a property of null or undefined throws and is guarded by callers
GetProp(x, k) == IF k \in DOMAIN Spread(x) THEN Spread(x)[k] ELSE Undef

\* x[k] = val outside strict mode: ignored on a primitive
SetProp(x, k, val) ==
    IF x.t = "obj"
    THEN JObj([j \in DOMAIN x.v \cup {k} |-> IF j = k THEN val ELSE x.v[j]])
    ELSE x

Truthy(x) ==
    CASE x.t \in {"undefined", "null"} -> FALSE
      [] x.t = "num" -> x.v # 0
      [] x.t = "str" -> Len(x.v) > 0
      [] x.t = "bool" -> x.v
      [] OTHER       -> TRUE

\* source[key] !== null && typeof source[key] === 'object' && !Array.isArray(source[key])
IsMapping(x) == x.t = "obj"

-----------------------------------------------------------------------------
(* config-loader.js: deepMerge, applyOverrides *)

RECURSIVE DeepMergeConcat(_, _)
\* variant that concatenates sequences instead of replacing them
DeepMergeConcat(target, source) ==
    LET base == Spread(target)
        ks   == DOMAIN Spread(source)
    IN  JObj([k \in DOMAIN base \cup ks |->
            IF k \in ks
            THEN LET sv == GetProp(source, k)
                     tv == GetProp(target, k)
                 IN  IF IsMapping(sv)
                     THEN DeepMergeConcat(IF Truthy(tv) THEN tv ELSE EmptyObj, sv)
                     ELSE IF sv.t = "arr" /\ tv.t = "arr"
                          THEN JArr(tv.v \o sv.v)
                          ELSE sv
            ELSE base[k]])

RECURSIVE deepMerge(_, _)
deepMerge(target, source) ==
    LET base == Spread(target)
        ks   == DOMAIN Spread(source)
    IN  IF /\ target.t \in {"null", "undefined"}
           /\ \E k \in ks : IsMapping(GetProp(source, k))
        THEN Thrown  \* target[key] on null: TypeError
        ELSE JObj([k \in DOMAIN base \cup ks |->
                IF k \in ks
                THEN LET sv == GetProp(source, k)
                         tv == GetProp(target, k)
                     IN  IF IsMapping(sv)
                         THEN deepMerge(IF Truthy(tv) THEN tv ELSE EmptyObj, sv)
                         ELSE sv
                ELSE base[k]])

\* states of a file on disk
FAbsent    == [kind |-> "absent"]
FGarbage   == [kind |-> "garbage"]
FJson(val) == [kind |-> "json", v |-> val]

\* applyOverrides(resumeData), given the state of the persona's override file
applyOverrides(resumeData, file) ==
    IF file.kind = "absent" THEN resumeData
    ELSE IF file.kind = "garbage" THEN resumeData
    ELSE LET r == deepMerge(resumeData, file.v)
         IN  IF r = Thrown THEN resumeData ELSE r

\* console.warn calls of applyOverrides: its catch block
applyOverridesWarnings(resumeData, file) ==
    IF file.kind = "garbage" THEN 1
    ELSE IF file.kind = "json" /\ deepMerge(resumeData, file.v) = Thrown THEN 1
    ELSE 0

-----------------------------------------------------------------------------
(* config-loader.js: loadPersonaConfig, resolveOutputFilename *)

DefaultNaming == s_persona \o s_dash \o s_role \o s_dash \o s_lang \o s_pdf

DEFAULT_CONFIG ==
    JObj([personaId       |-> JStr(s_default),
          displayName     |-> JStr(s_resume),
          defaultLanguage |-> JStr(s_en),
          defaultRole     |-> JStr(s_web),
          outputNaming    |-> JStr(DefaultNaming)])

\* if (!cfg[field]) cfg[field] = DEFAULT_CONFIG[field]
WithDefault(cfg, field) ==
    IF Truthy(GetProp(cfg, field)) THEN cfg
    ELSE SetProp(cfg, field, GetProp(DEFAULT_CONFIG, field))

\* console.warn calls of the field checks on cfg
FieldWarnings(cfg) ==
    (IF Truthy(GetProp(cfg, "personaId")) THEN 0 ELSE 1)
    + (IF Truthy(GetProp(cfg, "outputNaming")) THEN 0 ELSE 1)

\* what loadPersonaConfig does when cachedConfig does not short-cut it. A file
\* that cannot be read or parsed, or that parses to null (the field test then
\* throws), ends in the catch block, which warns twice.
ReadPersonaConfig(file) ==
    IF file.kind # "json" \/ file.v.t = "null"
    THEN [cache |-> DEFAULT_CONFIG, result |-> DEFAULT_CONFIG, read |-> 1, warns |-> 2]
    ELSE LET cfg == WithDefault(WithDefault(file.v, "personaId"), "outputNaming")
         IN  [cache |-> cfg, result |-> cfg, read |-> 1, warns |-> FieldWarnings(file.v)]

\* loadPersonaConfig(): the new value of cachedConfig, the value returned,
\* whether the file was read and how many warnings were logged
loadPersonaConfig(cache, file) ==
    IF Truthy(cache)
    THEN [cache |-> cache, result |-> cache, read |-> 0, warns |-> 0]
    ELSE ReadPersonaConfig(file)

\* the loop over tokens: {persona}, {role}, {lang}, {date}, in that order
ReplaceTokens(template, persona, role, lang) ==
    ReplaceAll(ReplaceAll(ReplaceAll(ReplaceAll(template,
        s_persona, persona), s_role, role), s_lang, lang), s_date, Today)

\* resolveOutputFilename(lang, role) on the configuration cfg; a template that
\* is no string has no replace method and the call throws
resolveOutputFilename(lang, role, cfg) ==
    LET template == GetProp(cfg, "outputNaming")
        persona  == GetProp(cfg, "personaId")
    IN  IF template.t # "str" \/ persona.t # "str" THEN Thrown
        ELSE JStr(ReplaceTokens(template.v, persona.v, role, lang))

-----------------------------------------------------------------------------
(* Records and override documents the merge is exercised on *)

\* partial maps from a set of keys to a set of values
Props(keys, vals) == UNION {[ks -> vals] : ks \in SUBSET keys}

MergeScalars == {JNull, JNum(1), JStr(s_ab)}
MergeArrays  == {JArr(<<JStr(s_c)>>), JArr(<<JStr(s_a), JStr(s_b)>>)}
MergeInner   == {JObj(f) : f \in Props({"x", "y"}, {JNum(1), JNum(3)})}
MergeDeep    == {JObj([x |-> JObj([y |-> JNum(2)])]), JObj([x |-> JArr(<<JNum(1)>>)])}

BaseValues == MergeScalars \cup MergeArrays \cup MergeInner \cup MergeDeep
OverValues == {JNum(3), JArr(<<JStr(s_c)>>)} \cup MergeInner
                \cup {JObj([x |-> JObj([y |-> JNum(3)])])}

\* resume records: JSON objects (and null, which JSON.parse also yields)
BaseRecords == {JObj(f) : f \in Props({"skills", "meta"}, BaseValues)} \cup {JNull}
\* override documents: any JSON value
OverDocs    == {JObj(f) : f \in Props({"skills", "meta"}, OverValues)}
                 \cup {JNull, JNum(3), JArr(<<JStr(s_c)>>)}
OverFiles   == {FAbsent, FGarbage} \cup {FJson(o) : o \in OverDocs}

InitBuildIdle ==
    /\ pc = "idle" /\ idx = 0 /\ log = <<>> /\ launched = 0 /\ closed = 0
    /\ dirs = {} /\ mkdirs = 0 /\ written = <<>> /\ failed = 0 /\ thrown = "" /\ css = <<>>
    /\ jsonFiles = <<>> /\ selectedTheme = "harvard" /\ themeFiles = {}
    /\ srcFiles = <<>>

InitConfigIdle ==
    /\ cachedConfig = JNull /\ configFile = FAbsent /\ reads = 0 /\ calls = 0
    /\ lastConfig = Undef /\ nameArgs = <<>> /\ nameOut = Undef

InitMergeIdle ==
    /\ mOp = "none" /\ mBase = JNull /\ mOver = FAbsent
    /\ mOnce = Undef /\ mTwice = Undef /\ mPhase = "idle"

InitMerge ==
    /\ InitBuildIdle /\ InitConfigIdle
    /\ mOp \in {"deepMerge", "applyOverrides"}
    /\ mBase \in BaseRecords
    /\ mOver \in OverFiles
    /\ mOp = "deepMerge" => mOver.kind = "json" /\ mBase # JNull
    /\ mOnce = Undef /\ mTwice = Undef /\ mPhase = "in"

\* deepMerge(base, override), then deepMerge of its result with the same override
CallDeepMerge ==
    /\ mOp = "deepMerge"
    /\ \/ /\ mPhase = "in"
          /\ mOnce' = deepMerge(mBase, mOver.v)
          /\ mPhase' = "once"
          /\ UNCHANGED mTwice
       \/ /\ mPhase = "once"
          /\ mTwice' = deepMerge(mOnce, mOver.v)
          /\ mPhase' = "twice"
          /\ UNCHANGED mOnce
    /\ UNCHANGED <<mOp, mBase, mOver, buildVars, configVars>>

\* applyOverrides(record), then applyOverrides of its result, the file unchanged
CallApplyOverrides ==
    /\ mOp = "applyOverrides"
    /\ \/ /\ mPhase = "in"
          /\ mOnce' = applyOverrides(mBase, mOver)
          /\ mPhase' = "once"
          /\ UNCHANGED mTwice
       \/ /\ mPhase = "once"
          /\ mTwice' = applyOverrides(mOnce, mOver)
          /\ mPhase' = "twice"
          /\ UNCHANGED mOnce
    /\ UNCHANGED <<mOp, mBase, mOver, buildVars, configVars>>

NextMerge == CallDeepMerge \/ CallApplyOverrides

SpecMerge == InitMerge /\ [][NextMerge]_vars

\* C8: applying the same override twice gives the record one application gives,
\* for deepMerge(deepMerge(r, o), o) and for applyOverrides(applyOverrides(r))
C8_MergeIdempotent == mPhase = "twice" => mTwice = mOnce

\* C8 witness: a second application of an override that changed the record,
\* with a nested mapping merged and a sequence replaced
C8_Witness ==
    /\ mPhase = "twice" /\ mOver.kind = "json" /\ mBase.t = "obj"
    /\ mOnce # mBase /\ mTwice = mOnce
    /\ GetProp(mBase, "meta").t = "obj" /\ GetProp(mOver.v, "meta").t = "obj"
    /\ GetProp(mBase, "skills").t = "arr" /\ GetProp(mOver.v, "skills").t = "arr"

RECURSIVE ClaimedMerge(_, _)
\* the merge as C4 states it, on two mappings
ClaimedMerge(base, over) ==
    JObj([k \in DOMAIN base.v \cup DOMAIN over.v |->
        IF k \in DOMAIN over.v
        THEN IF k \in DOMAIN base.v /\ IsMapping(base.v[k]) /\ IsMapping(over.v[k])
             THEN ClaimedMerge(base.v[k], over.v[k])
             ELSE over.v[k]
        ELSE base.v[k]])

\* C4: deepMerge(base, override) merges recursively where both values are
\* mappings, takes exactly the override value otherwise, and keeps base-only keys
C4_DeepMergeAsStated ==
    (mOp = "deepMerge" /\ mPhase # "in" /\ IsMapping(mBase) /\ IsMapping(mOver.v))
        => mOnce = ClaimedMerge(mBase, mOver.v)

-----------------------------------------------------------------------------
(* The configuration store over the life of a process *)

Line(lvl, msg) == [lvl |-> lvl, msg |-> msg]
ConfigWarnings(n)   == [i \in 1..n |-> Line("warn", "config")]
OverrideWarnings(n) == [i \in 1..n |-> Line("warn", "overrides")]

MaxCalls == 3

PersonaObj(persona, naming) ==
    JObj([personaId |-> JStr(persona), outputNaming |-> JStr(naming)])

\* contents of config/persona.config.json: missing, not JSON, or a JSON value
\* (JSON arrays are left out: the model gives sequences no named properties)
ConfigFiles ==
    {FAbsent, FGarbage}
    \cup {FJson(val) : val \in
            {JNull, JNum(0), JNum(5), JStr(<<>>), JStr(s_ab), JBool(FALSE), JBool(TRUE),
             EmptyObj,
             JObj([personaId |-> JStr(s_sergio)]),
             JObj([personaId |-> JStr(<<>>), displayName |-> JStr(s_a)]),
             JObj([outputNaming |-> JStr(s_role \o s_pdf), displayName |-> JStr(s_a)]),
             PersonaObj(s_sergio, s_lang \o s_dash \o s_role \o s_pdf)}}

Langs == {s_es, s_en}
Roles == {s_backend, s_web}

InitConfig ==
    /\ InitBuildIdle
    /\ cachedConfig = JNull
    /\ configFile \in ConfigFiles
    /\ reads = 0 /\ calls = 0 /\ lastConfig = Undef
    /\ nameArgs = <<>> /\ nameOut = Undef
    /\ mOp = "applyOverrides"
    /\ mBase = JObj([skills |-> JArr(<<JStr(s_a), JStr(s_b)>>)])
    /\ mOver \in {FAbsent, FJson(JObj([skills |-> JArr(<<JStr(s_c)>>)]))}
    /\ mOnce = Undef /\ mTwice = Undef /\ mPhase = "in"

\* getPersonaConfig()
CallGetPersonaConfig ==
    /\ pc = "idle" /\ calls < MaxCalls
    /\ LET r == loadPersonaConfig(cachedConfig, configFile)
       IN  /\ cachedConfig' = r.cache
           /\ lastConfig' = r.result
           /\ reads' = reads + r.read
           /\ log' = log \o ConfigWarnings(r.warns)
    /\ calls' = calls + 1
    /\ UNCHANGED <<configFile, nameArgs, nameOut, restOfBuild, mergeVars>>

\* resolveOutputFilename(lang, role)
CallResolveOutputFilename ==
    /\ pc = "idle" /\ calls < MaxCalls
    /\ \E lang \in Langs, role \in Roles :
         LET r == loadPersonaConfig(cachedConfig, configFile)
         IN  /\ cachedConfig' = r.cache
             /\ lastConfig' = r.result
             /\ reads' = reads + r.read
             /\ nameArgs' = <<lang, role>>
             /\ nameOut' = resolveOutputFilename(lang, role, r.result)
             /\ log' = log \o ConfigWarnings(r.warns)
    /\ calls' = calls + 1
    /\ UNCHANGED <<configFile, restOfBuild, mergeVars>>

\* applyOverrides(resumeData), called from outside the merge checks
CallApplyOverridesOf ==
    /\ pc = "idle" /\ calls < MaxCalls
    /\ LET r == loadPersonaConfig(cachedConfig, configFile)
       IN  /\ cachedConfig' = r.cache
           /\ lastConfig' = r.result
           /\ reads' = reads + r.read
           /\ log' = log \o ConfigWarnings(r.warns)
                       \o OverrideWarnings(applyOverridesWarnings(mBase, mOver))
    /\ mOnce' = applyOverrides(mBase, mOver)
    /\ mPhase' = "once"
    /\ calls' = calls + 1
    /\ UNCHANGED <<configFile, nameArgs, nameOut, restOfBuild, mOp, mBase, mOver, mTwice>>

\* the operator edits or replaces the configuration file while the process runs
ChangeConfigFile ==
    /\ pc = "idle"
    /\ configFile' \in ConfigFiles \ {configFile}
    /\ UNCHANGED <<cachedConfig, reads, calls, lastConfig, nameArgs, nameOut,
                   buildVars, mergeVars>>

NextConfig ==
    \/ CallGetPersonaConfig
    \/ CallResolveOutputFilename
    \/ CallApplyOverridesOf
    \/ ChangeConfigFile

SpecConfig == InitConfig /\ [][NextConfig]_vars

\* C5: every call gets a usable configuration: a record with a non-empty
\* personaId and a non-empty outputNaming, whatever the file held
C5_AlwaysUsable ==
    calls >= 1 =>
        /\ lastConfig.t = "obj"
        /\ Truthy(GetProp(lastConfig, "personaId"))
        /\ Truthy(GetProp(lastConfig, "outputNaming"))

\* C9: after the first call, no later call reads the configuration file again
\* and every later call works with the configuration the first one resolved
C9_ResolvedOnce ==
    [][(calls >= 1 /\ calls' = calls + 1)
          => (reads' = reads /\ lastConfig' = lastConfig)]_vars

-----------------------------------------------------------------------------
(* resolveOutputFilename over naming templates *)

MaxPieces == 2

Pieces == {s_persona, s_role, s_lang, s_date, s_foo, s_dash, s_pdf}

RECURSIVE TemplatesOf(_)
TemplatesOf(n) ==
    IF n = 0 THEN {<<>>}
    ELSE TemplatesOf(n - 1) \cup {t \o q : t \in TemplatesOf(n - 1), q \in Pieces}

Templates == (TemplatesOf(MaxPieces) \ {<<>>}) \cup {DefaultNaming}

\* persona ids, among them ids that hold token text or a replacement pattern
Personas  == {s_sergio, s_role, s_amp, s_after}
\* lower-cased path segments, among them directory names that hold token text
NameRoles == {s_backend, s_lang}
NameLangs == {s_es, s_dollars}

InitName ==
    /\ InitBuildIdle /\ InitMergeIdle
    /\ cachedConfig = JNull
    /\ configFile \in {FJson(PersonaObj(p, t)) : p \in Personas, t \in Templates}
    /\ reads = 0 /\ calls = 0 /\ lastConfig = Undef
    /\ nameArgs = <<>> /\ nameOut = Undef

\* resolveOutputFilename(lang, role)
ResolveName ==
    /\ pc = "idle" /\ calls < MaxCalls
    /\ \E lang \in NameLangs, role \in NameRoles :
         LET r == loadPersonaConfig(cachedConfig, configFile)
         IN  /\ cachedConfig' = r.cache
             /\ lastConfig' = r.result
             /\ reads' = reads + r.read
             /\ nameArgs' = <<lang, role>>
             /\ nameOut' = resolveOutputFilename(lang, role, r.result)
             /\ log' = log \o ConfigWarnings(r.warns)
    /\ calls' = calls + 1
    /\ UNCHANGED <<configFile, restOfBuild, mergeVars>>

NextName == ResolveName

SpecName == InitName /\ [][NextName]_vars

RECURSIVE LiteralFrom(_, _, _, _, _)
\* the template with each token replaced by its value, the values left as they are
LiteralFrom(s, i, persona, role, lang) ==
    IF i > Len(s) THEN <<>>
    ELSE IF MatchAt(s, i, s_persona)
         THEN persona \o LiteralFrom(s, i + Len(s_persona), persona, role, lang)
    ELSE IF MatchAt(s, i, s_role)
         THEN role \o LiteralFrom(s, i + Len(s_role), persona, role, lang)
    ELSE IF MatchAt(s, i, s_lang)
         THEN lang \o LiteralFrom(s, i + Len(s_lang), persona, role, lang)
    ELSE IF MatchAt(s, i, s_date)
         THEN Today \o LiteralFrom(s, i + Len(s_date), persona, role, lang)
    ELSE <<s[i]>> \o LiteralFrom(s, i + 1, persona, role, lang)

\* C6: the filename is the template with every {persona}, {role}, {lang} and
\* {date} replaced by exactly its value, and all other text left verbatim
C6_LiteralSubstitution ==
    calls >= 1 =>
        nameOut = JStr(LiteralFrom(GetProp(lastConfig, "outputNaming").v, 1,
                                   GetProp(lastConfig, "personaId").v,
                                   nameArgs[2], nameArgs[1]))

-----------------------------------------------------------------------------
(* generate.js *)

\* CONFIG.defaultTheme, CONFIG.distDir
defaultTheme == "harvard"
distDir      == s_dist

ThemeNames == {"harvard", "modern"}

\* the text of ./themes/<name>.css
ThemeCss(name) == <<"css of", name>>

\* variant that goes on without a stylesheet when the default is missing too
getThemeCssUnstyled(themeName, readable) ==
    IF themeName \in readable
    THEN [ok |-> TRUE, css |-> ThemeCss(themeName), warns |-> 0]
    ELSE IF defaultTheme \in readable
    THEN [ok |-> TRUE, css |-> ThemeCss(defaultTheme), warns |-> 1]
    ELSE [ok |-> TRUE, css |-> <<>>, warns |-> 1]

\* getThemeCss(themeName): ok is FALSE when the read in the catch block throws
getThemeCss(themeName, readable) ==
    IF themeName \in readable
    THEN [ok |-> TRUE, css |-> ThemeCss(themeName), warns |-> 0]
    ELSE IF defaultTheme \in readable
    THEN [ok |-> TRUE, css |-> ThemeCss(defaultTheme), warns |-> 1]
    ELSE [ok |-> FALSE, css |-> <<>>, warns |-> 1]

\* path.dirname of a relative path
Dirname(path) ==
    IF \E i \in 1..Len(path) : path[i] = "/"
    THEN SubSeq(path, 1, (CHOOSE i \in 1..Len(path) :
              /\ path[i] = "/"
              /\ \A j \in (i+1)..Len(path) : path[j] # "/") - 1)
    ELSE s_dot

RECURSIVE MissingDirs(_, _)
\* the directories ensureDirectoryExistence(filePath) creates
MissingDirs(filePath, existing) ==
    LET dirname == Dirname(filePath)
    IN  IF dirname = s_dot \/ dirname \in existing THEN {}
        ELSE MissingDirs(dirname, existing) \cup {dirname}

\* getOutputFilename(filePath), parts being the path relative to CONFIG.srcDir
getOutputFilename(parts, cfg) ==
    IF Len(parts) >= 2
    THEN resolveOutputFilename(toLowerCase(parts[Len(parts) - 1]),
                               toLowerCase(parts[1]), cfg)
    ELSE JStr(s_resume \o s_dash \o NowText \o s_pdf)

\* path.join(CONFIG.distDir, outputFilename)
OutputPath(filename) == distDir \o s_slash \o filename

MaxRecords == 2

SrcPaths ==
    { <<s_Backend, s_es, s_json>>,
      <<s_backend, s_a, s_es, s_json>>,
      <<s_backend, s_b, s_es, s_json>>,
      <<s_web, s_en, s_json>>,
      <<s_json>> }

\* listings of distinct files
Listings ==
    {l \in UNION {[1..n -> SrcPaths] : n \in 0..MaxRecords} :
        \A i, j \in DOMAIN l : i # j => l[i] # l[j]}

BuildConfigFiles ==
    { FAbsent,
      FJson(JNum(0)),
      FJson(PersonaObj(s_sergio, DefaultNaming)),
      FJson(PersonaObj(s_sergio, s_role \o s_slash \o s_persona \o s_dash \o s_lang \o s_pdf)) }

\* a parsed resume.json
SampleRecord == JObj([skills |-> JArr(<<JStr(s_a), JStr(s_b)>>),
                      meta   |-> JObj([x |-> JNum(1)])])

Init ==
    /\ pc = "start" /\ idx = 0 /\ log = <<>> /\ launched = 0 /\ closed = 0
    /\ dirs \in {{}, {distDir}} /\ mkdirs = 0 /\ written = <<>> /\ failed = 0
    /\ thrown = "" /\ css = <<>> /\ jsonFiles = <<>>
    /\ selectedTheme \in ThemeNames
    /\ themeFiles \in SUBSET ThemeNames
    /\ srcFiles \in Listings
    /\ cachedConfig = JNull
    /\ configFile \in BuildConfigFiles
    /\ reads = 0 /\ calls = 0 /\ lastConfig = Undef
    /\ nameArgs = <<>> /\ nameOut = Undef
    /\ mOp = "applyOverrides" /\ mBase = JNull
    /\ mOver \in {FAbsent, FJson(JObj([meta |-> JObj([y |-> JNum(3)])]))}
    /\ mOnce = Undef /\ mTwice = Undef /\ mPhase = "in"

\* an exception leaves build(): nothing catches it
Throw(step) == pc' = "crashed" /\ thrown' = step

\* lines 68-72: the banner, then the template is read and compiled
ReadTemplate ==
    /\ pc = "start"
    /\ log' = Append(log, Line("log", "theme"))
    /\ \/ pc' = "theme" /\ UNCHANGED thrown
       \/ Throw("template")
    /\ UNCHANGED <<idx, launched, closed, dirs, mkdirs, written, failed, css,
                   jsonFiles, selectedTheme, themeFiles, srcFiles,
                   configVars, mergeVars>>

\* line 73: css = getThemeCss(selectedTheme)
ResolveTheme ==
    /\ pc = "theme"
    /\ LET r == getThemeCss(selectedTheme, themeFiles)
       IN  /\ log' = log \o [i \in 1..r.warns |-> Line("warn", "theme-fallback")]
           /\ css' = r.css
           /\ IF r.ok THEN pc' = "discover" /\ UNCHANGED thrown
                      ELSE Throw("theme")
    /\ UNCHANGED <<idx, launched, closed, dirs, mkdirs, written, failed,
                   jsonFiles, selectedTheme, themeFiles, srcFiles,
                   configVars, mergeVars>>

\* variant that acquires the print engine whatever discovery returned
DiscoverThenLaunch ==
    /\ pc = "discover"
    /\ jsonFiles' = srcFiles
    /\ pc' = "launch"
    /\ UNCHANGED <<idx, log, launched, closed, dirs, mkdirs, written, failed, thrown,
                   css, selectedTheme, themeFiles, srcFiles, configVars, mergeVars>>

\* lines 75-80: findJsonFiles, and the return when nothing was found
Discover ==
    /\ pc = "discover"
    /\ \/ /\ jsonFiles' = srcFiles
          /\ IF Len(srcFiles) = 0
             THEN /\ log' = Append(log, Line("error", "no-records"))
                  /\ pc' = "returned"
             ELSE /\ pc' = "launch"
                  /\ UNCHANGED log
          /\ UNCHANGED thrown
       \/ \* readdirSync or statSync throws
          /\ Throw("discover")
          /\ UNCHANGED <<jsonFiles, log>>
    /\ UNCHANGED <<idx, launched, closed, dirs, mkdirs, written, failed,
                   css, selectedTheme, themeFiles, srcFiles, configVars, mergeVars>>

\* lines 82-83: puppeteer.launch(), browser.newPage()
Launch ==
    /\ pc = "launch"
    /\ \/ /\ launched' = launched + 1
          /\ \/ pc' = "load" /\ idx' = 1 /\ UNCHANGED thrown
             \/ Throw("newPage") /\ UNCHANGED idx
       \/ Throw("launch") /\ UNCHANGED <<launched, idx>>
    /\ UNCHANGED <<log, closed, dirs, mkdirs, written, failed, css,
                   jsonFiles, selectedTheme, themeFiles, srcFiles,
                   configVars, mergeVars>>

\* line 86: the record is read and parsed
LoadRecord ==
    /\ pc = "load"
    /\ \/ /\ mBase' = SampleRecord
          /\ pc' = "overrides"
          /\ UNCHANGED <<failed, thrown>>
       \/ \* the file is not JSON, or cannot be read
          /\ Throw("parse")
          /\ failed' = failed + 1
          /\ UNCHANGED mBase
    /\ UNCHANGED <<idx, log, launched, closed, dirs, mkdirs, written, css,
                   jsonFiles, selectedTheme, themeFiles, srcFiles,
                   configVars, mOp, mOver, mOnce, mTwice, mPhase>>

\* line 94: resumeData = configLoader.applyOverrides(resumeData)
ApplyOverridesStep ==
    /\ pc = "overrides"
    /\ LET r == loadPersonaConfig(cachedConfig, configFile)
       IN  /\ cachedConfig' = r.cache
           /\ lastConfig' = r.result
           /\ reads' = reads + r.read
           /\ log' = log \o ConfigWarnings(r.warns)
                       \o OverrideWarnings(applyOverridesWarnings(mBase, mOver))
    /\ mOnce' = applyOverrides(mBase, mOver)
    /\ calls' = calls + 1
    /\ pc' = "render"
    /\ UNCHANGED <<idx, launched, closed, dirs, mkdirs, written, failed, thrown, css,
                   jsonFiles, selectedTheme, themeFiles, srcFiles,
                   configFile, nameArgs, nameOut, mOp, mBase, mOver, mTwice, mPhase>>

\* lines 96-106: the template is expanded and handed to the page
Render ==
    /\ pc = "render"
    /\ \/ pc' = "write" /\ UNCHANGED <<failed, thrown>>
       \/ Throw("render") /\ failed' = failed + 1
    /\ UNCHANGED <<idx, log, launched, closed, dirs, mkdirs, written, css,
                   jsonFiles, selectedTheme, themeFiles, srcFiles,
                   configVars, mergeVars>>

\* lines 108-130: the output path is resolved, its directory made, the PDF printed
WriteRecord ==
    /\ pc = "write"
    /\ LET r    == loadPersonaConfig(cachedConfig, configFile)
           name == getOutputFilename(jsonFiles[idx], r.result)
           resolves == Len(jsonFiles[idx]) >= 2
       IN  /\ cachedConfig' = IF resolves THEN r.cache ELSE cachedConfig
           /\ lastConfig' = IF resolves THEN r.result ELSE lastConfig
           /\ reads' = IF resolves THEN reads + r.read ELSE reads
           /\ calls' = IF resolves THEN calls + 1 ELSE calls
           /\ nameArgs' = IF resolves
                          THEN <<toLowerCase(jsonFiles[idx][Len(jsonFiles[idx]) - 1]),
                                 toLowerCase(jsonFiles[idx][1])>>
                          ELSE nameArgs
           /\ nameOut' = name
           /\ IF name = Thrown
              THEN /\ Throw("resolve")
                   /\ failed' = failed + 1
                   /\ log' = log \o ConfigWarnings(IF resolves THEN r.warns ELSE 0)
                   /\ UNCHANGED <<idx, dirs, mkdirs, written>>
              ELSE LET outputPath == OutputPath(name.v)
                       made == MissingDirs(outputPath, dirs)
                   IN  /\ dirs' = dirs \cup made
                       /\ mkdirs' = mkdirs + Cardinality(made)
                       /\ \/ /\ written' = Append(written,
                                    [src |-> jsonFiles[idx], path |-> outputPath])
                             /\ log' = (log \o ConfigWarnings(IF resolves THEN r.warns ELSE 0))
                                          \o <<Line("log", "generated")>>
                             /\ idx' = idx + 1
                             /\ pc' = IF idx < Len(jsonFiles) THEN "load" ELSE "close"
                             /\ UNCHANGED <<failed, thrown>>
                          \/ \* page.pdf rejects: print or write failure
                             /\ Throw("print")
                             /\ failed' = failed + 1
                             /\ log' = log \o ConfigWarnings(IF resolves THEN r.warns ELSE 0)
                             /\ UNCHANGED <<idx, written>>
    /\ UNCHANGED <<launched, closed, css, jsonFiles, selectedTheme, themeFiles,
                   srcFiles, configFile, mergeVars>>

\* lines 133-134: browser.close() and the closing message
CloseBrowser ==
    /\ pc = "close"
    /\ closed' = closed + 1
    /\ log' = Append(log, Line("log", "complete"))
    /\ pc' = "done"
    /\ UNCHANGED <<idx, launched, dirs, mkdirs, written, failed, thrown, css,
                   jsonFiles, selectedTheme, themeFiles, srcFiles,
                   configVars, mergeVars>>

Next ==
    \/ ReadTemplate
    \/ ResolveTheme
    \/ Discover
    \/ Launch
    \/ LoadRecord
    \/ ApplyOverridesStep
    \/ Render
    \/ WriteRecord
    \/ CloseBrowser

Spec == Init /\ [][Next]_vars

\* build() has ended: it returned, or an exception left it
Ended == pc \in {"done", "returned", "crashed"}

\* how many lines of the console output are the given line
CountOf(lines, line) == Cardinality({i \in DOMAIN lines : lines[i] = line})

\* how many lines of the console output went through console.error
ErrorLines(lines) == Cardinality({i \in DOMAIN lines : lines[i].lvl = "error"})

\* C1: a record that fails is caught and the later records are still
\* processed: when build() has ended after entering the loop, every one of the
\* N discovered records either produced an artifact or is one of the k that
\* failed, so that N - k artifacts were produced
C1_FailuresIsolated ==
    (Ended /\ idx >= 1) => Len(written) = Len(jsonFiles) - failed

\* C2: the print engine is acquired at most once and released at most once,
\* and once acquired it has been released whenever build() has ended
C2_EngineReleased ==
    /\ launched <= 1 /\ closed <= 1
    /\ (Ended /\ launched >= 1) => closed = 1

\* C3: with zero records discovered, build() returns after one diagnostic (the
\* only error-level line, and its last line), the engine is never launched, no
\* directory is created and nothing is written; the lines before it are the
\* theme banner and the theme resolver's warning
C3_NoRecordsNoEngine ==
    /\ Len(srcFiles) = 0 =>
          /\ launched = 0 /\ mkdirs = 0 /\ written = <<>> /\ closed = 0
          /\ pc \in {"start", "theme", "discover", "returned", "crashed"}
    /\ pc = "returned" =>
          /\ Len(srcFiles) = 0
          /\ ErrorLines(log) = 1
          /\ log[Len(log)] = Line("error", "no-records")
          /\ \A i \in 1..(Len(log) - 1) :
                log[i] \in {Line("log", "theme"), Line("warn", "theme-fallback")}

\* C3 witness: build() has returned from an empty discovery
C3_Witness ==
    /\ pc = "returned" /\ Len(jsonFiles) = 0 /\ launched = 0
    /\ log[Len(log)] = Line("error", "no-records")

\* getThemeCss has been called and has returned or thrown
ThemeTried == pc \notin {"start", "theme"} /\ thrown # "template"

\* C7: an unreadable theme yields exactly the default theme's stylesheet and
\* one warning; with the default unreadable too, build() ends on that error
\* before discovery, before the engine is launched and before any record
C7_ThemeFallback ==
    /\ (ThemeTried /\ selectedTheme \notin themeFiles /\ defaultTheme \in themeFiles) =>
          /\ css = ThemeCss(defaultTheme)
          /\ CountOf(log, Line("warn", "theme-fallback")) = 1
          /\ thrown # "theme"
    /\ (ThemeTried /\ selectedTheme \notin themeFiles /\ defaultTheme \notin themeFiles) =>
          /\ pc = "crashed" /\ thrown = "theme"
          /\ launched = 0 /\ idx = 0 /\ failed = 0 /\ calls = 0
          /\ jsonFiles = <<>> /\ written = <<>> /\ mkdirs = 0

\* C7 witness: a build that fell back to the default theme and went on to
\* write its records
C7_Witness ==
    /\ pc = "done" /\ selectedTheme \notin themeFiles
    /\ css = ThemeCss(defaultTheme) /\ Len(written) >= 1
    /\ CountOf(log, Line("warn", "theme-fallback")) = 1

\* the naming template in use holds {persona}, {role} and {lang}
NamingUsesTokens ==
    /\ lastConfig.t = "obj"
    /\ GetProp(lastConfig, "outputNaming").t = "str"
    /\ \A tok \in {s_persona, s_role, s_lang} :
          Contains(GetProp(lastConfig, "outputNaming").v, tok)

\* C10: within one build, two distinct records are never written to the same path
C10_DistinctOutputs ==
    NamingUsesTokens =>
        \A i, j \in DOMAIN written :
            written[i].src # written[j].src => written[i].path # written[j].path

=============================================================================
